---- MODULE Spec2Model ----
(***************************************************************************)
(* Model of PalletOptimizer (src/app.py): the CP-SAT model that otimizar   *)
(* builds, the solve/return cycle, calcular_metricas, and the two handlers *)
(* of main that call them: the optimisation button with its figures and    *)
(* downloads, and the scenario comparison.                                 *)
(*                                                                         *)
(* Python indexes items and pallets from 0; the item list is a TLA+        *)
(* sequence, so item i of the code is itens[i + 1] here.  Lengths are in   *)
(* decimetres, volumes and masses are the integer 'vol' and 'mass' fields  *)
(* of the item dictionaries.  Python's None is the empty sequence and a    *)
(* value v that may be None is <<v>>.                                      *)
(***************************************************************************)
EXTENDS Integers, Sequences, FiniteSets, TLC

VARIABLES
    itens,            \* argument 'itens' of the calls
    pallets_config,   \* argument 'pallets_config' of the calls
    pc,               \* position of the caller: "inicio", "otimizado", "metricas"
    solver,           \* returned CpSolver (its variable values), or None
    x, r, s,          \* returned variable dictionaries, or None
    status,           \* returned status
    solve_calls,      \* number of calls of solver.Solve
    metricas,         \* result of calcular_metricas, or None
    erro,             \* exception raised by the last call, "" when none
    solve_status,     \* what solver.Solve returned (line 151)
    mensagens,        \* what main has shown: st.success, st.error, st.warning
    fig,              \* boxes of the plotly figure, or None
    fig_mpl,          \* boxes of the matplotlib figure main has drawn, or None
    resultados,       \* resultados['alocacao'], or None
    json_data,        \* the allocation as written to the JSON download, or None
    csv_data,         \* the allocation as written to the CSV download, or None
    optimizer,        \* the fields of the PalletOptimizer object
    comparacao,       \* what the scenario comparison of main obtained, or None
    modelos           \* the models otimizar builds for two item lists, or None

(* What main produces besides the messages *)
saidas == <<fig, fig_mpl, resultados, json_data, csv_data>>

vars == <<itens, pallets_config, pc, solver, x, r, s, status, solve_calls, metricas, erro,
          solve_status, mensagens, fig, fig_mpl, resultados, json_data, csv_data,
          optimizer, comparacao, modelos>>

-----------------------------------------------------------------------------
(* Bounds of the model *)

MaxItens == 2
MaxPallets == 2

(* Program constants *)

SCALE_VOL == 1000000
SCALE_MASS == 1000
NumRotacoes == 6

None == << >>
Some(v) == <<v>>

-----------------------------------------------------------------------------
(* Helpers *)

RECURSIVE SumOver(_, _)
SumOver(S, f) ==
    IF S = {} THEN 0
    ELSE LET e == CHOOSE e \in S : TRUE
         IN f[e] + SumOver(S \ {e}, f)

Range0(n) == 0 .. (n - 1)

Item(its, i) == its[i + 1]

Prioridade(item) ==
    IF "prioridade" \in DOMAIN item THEN item.prioridade ELSE 1

permutacoes(l, w, h) ==
    << <<l, w, h>>, <<l, h, w>>,
       <<w, l, h>>, <<w, h, l>>,
       <<h, l, w>>, <<h, w, l>> >>

-----------------------------------------------------------------------------
(* Decision variables created by otimizar: each is named as in NewBoolVar *)

XVars(n, num_pallets) ==
    [ip \in Range0(n) \X Range0(num_pallets) |-> <<"x", ip[1], ip[2]>>]

RVars(n) ==
    [ik \in Range0(n) \X Range0(NumRotacoes) |-> <<"r", ik[1], ik[2]>>]

SVars(n) ==
    [ij \in {ij \in Range0(n) \X Range0(n) : ij[1] # ij[2]} |-> <<"s", ij[1], ij[2]>>]

(* solver.Value(var) *)
Value(slv, var) == slv[var]

(* next(k for k in range(6) if solver.Value(r[i, k]) == 1); -1 stands for the *)
(* StopIteration raised when no k qualifies *)
Orientacao(slv, rs, i) ==
    LET K == { k \in Range0(NumRotacoes) : Value(slv, rs[<<i, k>>]) = 1 }
    IN IF K = {} THEN -1 ELSE CHOOSE k \in K : \A k2 \in K : k <= k2

-----------------------------------------------------------------------------
(* Constraints posted by otimizar; v is an assignment of 0/1 to variables.  *)
(* Over no items or no pallets Python's sum() is the integer 0 and the     *)
(* comparison a constant, which model.Add posts as an always-true or an    *)
(* always-false constraint: the empty sums below are 0 likewise.           *)

(* Mutant: the bound of the sum is 2 instead of 1 *)
MutUmaPaleteAteDuas(v, xs, i, num_pallets) ==
    SumOver(Range0(num_pallets), [p \in Range0(num_pallets) |-> v[xs[<<i, p>>]]]) <= 2

RestricaoUmaPalete(v, xs, i, num_pallets) ==
    SumOver(Range0(num_pallets), [p \in Range0(num_pallets) |-> v[xs[<<i, p>>]]]) <= 1

(* Mutant: the branch for non-rotatable items is lost *)
MutRotacaoSemFixar(v, rs, i, its) ==
    SumOver(Range0(NumRotacoes), [k \in Range0(NumRotacoes) |-> v[rs[<<i, k>>]]]) = 1

(* Mutant: a rotatable item gets "<= 1" instead of "== 1" *)
MutRotacaoNoMaximoUma(v, rs, i, its) ==
    IF Item(its, i).o # 0
    THEN SumOver(Range0(NumRotacoes), [k \in Range0(NumRotacoes) |-> v[rs[<<i, k>>]]]) <= 1
    ELSE /\ v[rs[<<i, 0>>]] = 1
         /\ \A k \in 1 .. (NumRotacoes - 1) : v[rs[<<i, k>>]] = 0

RestricaoRotacao(v, rs, i, its) ==
    IF Item(its, i).o # 0
    THEN SumOver(Range0(NumRotacoes), [k \in Range0(NumRotacoes) |-> v[rs[<<i, k>>]]]) = 1
    ELSE /\ v[rs[<<i, 0>>]] = 1
         /\ \A k \in 1 .. (NumRotacoes - 1) : v[rs[<<i, k>>]] = 0

(* Mutant: the fragility constraint is lost *)
MutEmpilhamentoSemFragil(v, ss, i, j, its) ==
    (Item(its, i).mass > Item(its, j).mass) => v[ss[<<i, j>>]] = 0

RestricaoEmpilhamento(v, ss, i, j, its) ==
    /\ (Item(its, j).f # 0) => v[ss[<<i, j>>]] = 0
    /\ (Item(its, i).mass > Item(its, j).mass) => v[ss[<<i, j>>]] = 0

(* Mutant: the sums are to be below the capacities, not at most equal *)
MutCapacidadeEstrita(v, xs, p, its, cfg) ==
    LET I == Range0(Len(its))
    IN /\ SumOver(I, [i \in I |-> v[xs[<<i, p>>]] * Item(its, i).mass])
            < cfg.capacidade_massa
       /\ SumOver(I, [i \in I |-> v[xs[<<i, p>>]] * Item(its, i).vol])
            < cfg.capacidade_volume

(* Mutant: the mass a pallet takes shrinks as the capacity grows *)
MutCapacidadeInvertida(v, xs, p, its, cfg) ==
    LET I == Range0(Len(its))
    IN /\ SumOver(I, [i \in I |-> v[xs[<<i, p>>]] * Item(its, i).mass])
            <= 2000 * SCALE_MASS - cfg.capacidade_massa
       /\ SumOver(I, [i \in I |-> v[xs[<<i, p>>]] * Item(its, i).vol])
            <= cfg.capacidade_volume

(* Mutant: a fragile item takes twice its volume *)
MutCapacidadeFragilDobro(v, xs, p, its, cfg) ==
    LET I == Range0(Len(its))
    IN /\ SumOver(I, [i \in I |-> v[xs[<<i, p>>]] * Item(its, i).mass])
            <= cfg.capacidade_massa
       /\ SumOver(I, [i \in I |-> v[xs[<<i, p>>]] * Item(its, i).vol * (1 + Item(its, i).f)])
            <= cfg.capacidade_volume

(* Mutant: the volume constraint is lost *)
MutCapacidadeSemVolume(v, xs, p, its, cfg) ==
    LET n == Len(its)
    IN SumOver(Range0(n), [i \in Range0(n) |-> v[xs[<<i, p>>]] * Item(its, i).mass])
         <= cfg.capacidade_massa

RestricaoCapacidade(v, xs, p, its, cfg) ==
    LET n == Len(its)
    IN /\ SumOver(Range0(n), [i \in Range0(n) |-> v[xs[<<i, p>>]] * Item(its, i).mass])
            <= cfg.capacidade_massa
       /\ SumOver(Range0(n), [i \in Range0(n) |-> v[xs[<<i, p>>]] * Item(its, i).vol])
            <= cfg.capacidade_volume

(* Mutant: the priority weight is lost *)
MutObjetivoSemPrioridade(v, xs, its, num_pallets) ==
    LET n == Len(its)
        D == Range0(n) \X Range0(num_pallets)
    IN SumOver(D, [ip \in D |-> v[xs[ip]] * Item(its, ip[1]).vol])

Objetivo(v, xs, its, num_pallets) ==
    LET n == Len(its)
        D == Range0(n) \X Range0(num_pallets)
    IN SumOver(D, [ip \in D |->
           v[xs[ip]] * Item(its, ip[1]).vol * Prioridade(Item(its, ip[1]))])

-----------------------------------------------------------------------------
(* The solver: CpSolver.Solve on the model built by otimizar.  The search  *)
(* is a black box; what the model keeps is its contract: a returned        *)
(* assignment satisfies every posted constraint, OPTIMAL is returned with  *)
(* an assignment of maximal objective, INFEASIBLE only when no assignment  *)
(* satisfies the constraints, and when max_time_in_seconds expires the     *)
(* result is FEASIBLE (an assignment was found) or UNKNOWN (none was).     *)
(* Before any search Solve validates the model, and MODEL_INVALID is its   *)
(* answer to a model in which a linear expression can leave the range of   *)
(* the solver's 64-bit integers.                                           *)

OPTIMAL == "OPTIMAL"
FEASIBLE == "FEASIBLE"
INFEASIBLE == "INFEASIBLE"
MODEL_INVALID == "MODEL_INVALID"
UNKNOWN == "UNKNOWN"

(* The validation works on 64-bit integers, which TLC's integers of 32     *)
(* bits cannot hold: the sums it forms are computed here on numbers        *)
(* written in base BaseGrande, digit k of weight BaseGrande^k, with six    *)
(* digits.                                                                 *)
BaseGrande == 10000

Posicoes == 0 .. 5

Abs(n) == IF n < 0 THEN -n ELSE n

(* The number n, 0 <= n < 2^31 *)
Grande(n) ==
    [k \in Posicoes |->
        CASE k = 0 -> n % BaseGrande
          [] k = 1 -> (n \div BaseGrande) % BaseGrande
          [] k = 2 -> n \div (BaseGrande * BaseGrande)
          [] OTHER -> 0]

(* The carry into digit k of the digit sums c *)
RECURSIVE Transporte(_, _)
Transporte(c, k) ==
    IF k = 0 THEN 0 ELSE (c[k - 1] + Transporte(c, k - 1)) \div BaseGrande

Normalizar(c) == [k \in Posicoes |-> (c[k] + Transporte(c, k)) % BaseGrande]

GrandeSoma(a, b) == Normalizar([k \in Posicoes |-> a[k] + b[k]])

(* a * b for a, b < BaseGrande^3 *)
GrandeProduto(a, b) ==
    Normalizar([k \in Posicoes |->
        SumOver(0 .. 2, [i \in 0 .. 2 |->
            IF k - i \in 0 .. 2 THEN a[i] * b[k - i] ELSE 0])])

(* a * m for a small natural m *)
GrandeVezes(a, m) == Normalizar([k \in Posicoes |-> a[k] * m])

(* a >= b, compared from digit k down *)
RECURSIVE MaiorOuIgualDesde(_, _, _)
MaiorOuIgualDesde(a, b, k) ==
    IF a[k] > b[k] THEN TRUE
    ELSE IF a[k] < b[k] THEN FALSE
    ELSE IF k = 0 THEN TRUE
    ELSE MaiorOuIgualDesde(a, b, k - 1)

GrandeMaiorOuIgual(a, b) == MaiorOuIgualDesde(a, b, 5)

RECURSIVE GrandeSomaDe(_, _)
GrandeSomaDe(S, f) ==
    IF S = {} THEN Grande(0)
    ELSE LET e == CHOOSE e \in S : TRUE
         IN GrandeSoma(f[e], GrandeSomaDe(S \ {e}, f))

(* 2^63 - 1, the largest 64-bit integer, and 2^62 *)
MaxInt64 == (0 :> 5807) @@ (1 :> 5477) @@ (2 :> 368) @@ (3 :> 3372) @@ (4 :> 922) @@ (5 :> 0)
MetadeInt64 == (0 :> 7904) @@ (1 :> 2738) @@ (2 :> 184) @@ (3 :> 1686) @@ (4 :> 461) @@ (5 :> 0)

(* The linear expressions of the model of otimizar(its, cfg) with          *)
(* coefficients other than 1: the mass sum and the volume sum of a pallet  *)
(* (lines 133-138; none without a pallet) and the objective (lines         *)
(* 141-146), each as the sum of its positive coefficients and the sum of   *)
(* the magnitudes of its negative ones.  The variables are Boolean, so     *)
(* these are the largest and the smallest value the expression can take.   *)
ExtremosDasExpressoes(its, cfg) ==
    LET I == Range0(Len(its))
        num_pallets == IF cfg.quantidade > 0 THEN cfg.quantidade ELSE 0
        coef(i) == GrandeProduto(Grande(Abs(Item(its, i).vol)),
                                 Grande(Abs(Prioridade(Item(its, i)))))
        positivo(i) == \/ Item(its, i).vol > 0 /\ Prioridade(Item(its, i)) > 0
                       \/ Item(its, i).vol < 0 /\ Prioridade(Item(its, i)) < 0
        negativo(i) == \/ Item(its, i).vol > 0 /\ Prioridade(Item(its, i)) < 0
                       \/ Item(its, i).vol < 0 /\ Prioridade(Item(its, i)) > 0
        capacidade ==
            IF num_pallets = 0 THEN {}
            ELSE { GrandeSomaDe({i \in I : Item(its, i).mass > 0},
                                [i \in I |-> Grande(Abs(Item(its, i).mass))]),
                   GrandeSomaDe({i \in I : Item(its, i).mass < 0},
                                [i \in I |-> Grande(Abs(Item(its, i).mass))]),
                   GrandeSomaDe({i \in I : Item(its, i).vol > 0},
                                [i \in I |-> Grande(Abs(Item(its, i).vol))]),
                   GrandeSomaDe({i \in I : Item(its, i).vol < 0},
                                [i \in I |-> Grande(Abs(Item(its, i).vol))]) }
    IN capacidade
       \cup { GrandeVezes(GrandeSomaDe({i \in I : positivo(i)}, [i \in I |-> coef(i)]),
                          num_pallets),
              GrandeVezes(GrandeSomaDe({i \in I : negativo(i)}, [i \in I |-> coef(i)]),
                          num_pallets) }

(* Whether every version of the solver rejects the model of                *)
(* otimizar(its, cfg): an extreme of an expression does not fit in a       *)
(* 64-bit integer.                                                         *)
ModeloInvalido(its, cfg) ==
    \E e \in ExtremosDasExpressoes(its, cfg) : GrandeMaiorOuIgual(e, MaxInt64)

(* Whether some version of the solver rejects it: the later versions also  *)
(* reject an extreme beyond half of the 64-bit range, so that the          *)
(* difference of the two extremes fits; the repository pins no version.    *)
ModeloInvalidoConformeVersao(its, cfg) ==
    \E e \in ExtremosDasExpressoes(its, cfg) : GrandeMaiorOuIgual(e, MetadeInt64)

RECURSIVE Combine(_, _)
Combine(I, rows) ==
    IF I = {} THEN { << >> }
    ELSE LET i == CHOOSE i \in I : TRUE
         IN { a @@ b : a \in rows[i], b \in Combine(I \ {i}, rows) }

(* Assignments of the x variables satisfying the constraints on x *)
XSolutions(its, cfg) ==
    LET n == Len(its)
        num_pallets == cfg.quantidade
        xs == XVars(n, num_pallets)
        rows == [i \in Range0(n) |->
                   { row \in [{xs[<<i, p>>] : p \in Range0(num_pallets)} -> {0, 1}] :
                       RestricaoUmaPalete(row, xs, i, num_pallets) }]
    IN { v \in Combine(Range0(n), rows) :
           \A p \in Range0(num_pallets) : RestricaoCapacidade(v, xs, p, its, cfg) }

(* Assignments of the r variables satisfying the constraints on r *)
RSolutions(its) ==
    LET n == Len(its)
        rs == RVars(n)
        rows == [i \in Range0(n) |->
                   { row \in [{rs[<<i, k>>] : k \in Range0(NumRotacoes)} -> {0, 1}] :
                       RestricaoRotacao(row, rs, i, its) }]
    IN Combine(Range0(n), rows)

(* Assignments of the s variables satisfying the constraints on s *)
SSolutions(its) ==
    LET n == Len(its)
        ss == SVars(n)
        rows == [ij \in DOMAIN ss |->
                   { row \in [{ss[ij]} -> {0, 1}] :
                       RestricaoEmpilhamento(row, ss, ij[1], ij[2], its) }]
    IN Combine(DOMAIN ss, rows)

(* The largest objective value among the assignments of a non-empty set *)
MaxObjetivo(sols, its, cfg) ==
    LET xs == XVars(Len(its), cfg.quantidade)
        vals == { Objetivo(v, xs, its, cfg.quantidade) : v \in sols }
    IN CHOOSE m \in vals : \A o \in vals : o <= m

XOptimal(its, cfg) ==
    LET xs == XVars(Len(its), cfg.quantidade)
        sols == XSolutions(its, cfg)
        best == MaxObjetivo(sols, its, cfg)
    IN { v \in sols : Objetivo(v, xs, its, cfg.quantidade) = best }

-----------------------------------------------------------------------------
(* The arguments of the methods of the class called directly by a client   *)
(* of PalletOptimizer: the methods check none of them, so the item list    *)
(* may be empty, the pallet count 0, a capacity 0 or negative, and an item  *)
(* may have a length of 0 and a negative mass.                             *)

ItemKinds ==
    { [l |-> 2, w |-> 1, h |-> 1, vol |-> 2, mass |-> 1, f |-> 0, o |-> 0, prioridade |-> 1],
      [l |-> 1, w |-> 1, h |-> 1, vol |-> 1, mass |-> 1, f |-> 1, o |-> 0, prioridade |-> 2],
      [l |-> 2, w |-> 1, h |-> 1, vol |-> 2, mass |-> 2, f |-> 1, o |-> 1, prioridade |-> 2],
      [l |-> 0, w |-> 1, h |-> 1, vol |-> 0, mass |-> -1, f |-> 1, o |-> 0, prioridade |-> 1] }

ItemLists == UNION { [1 .. n -> ItemKinds] : n \in 0 .. MaxItens }

Capacidades ==
    { <<2, 3>>, <<3, 2>>, <<0, 3>>, <<3, -1>> }

Configs ==
    { [quantidade |-> q, capacidade_massa |-> c[1], capacidade_volume |-> c[2]] :
        q \in 0 .. MaxPallets, c \in Capacidades }

-----------------------------------------------------------------------------
(* State machine *)

(* Lines 26-29: the fields __init__ gives a new optimizer *)
PalletOptimizer == [itens |-> << >>, pallets |-> << >>, solver_result |-> None]

Init ==
    /\ itens \in ItemLists
    /\ pallets_config \in Configs
    /\ pc = "inicio"
    /\ solver = None
    /\ x = None
    /\ r = None
    /\ s = None
    /\ status = ""
    /\ solve_calls = 0
    /\ metricas = None
    /\ erro = ""
    /\ solve_status = ""
    /\ mensagens = << >>
    /\ fig = None
    /\ fig_mpl = None
    /\ resultados = None
    /\ json_data = None
    /\ csv_data = None
    /\ optimizer = PalletOptimizer
    /\ comparacao = None
    /\ modelos = None

(* Mutant: the variable dictionaries are returned whatever the status *)
MutRetornoSempreVariaveis(st, v) ==
    LET n == Len(itens)
    IN /\ solver' = IF st \in {OPTIMAL, FEASIBLE} THEN Some(v) ELSE None
       /\ x' = Some(XVars(n, pallets_config.quantidade))
       /\ r' = Some(RVars(n))
       /\ s' = Some(SVars(n))
       /\ status' = st

(* Lines 153-156: what otimizar returns for a status and an assignment *)
Retorno(st, v) ==
    LET n == Len(itens)
    IN IF st \in {OPTIMAL, FEASIBLE}
       THEN /\ solver' = Some(v)
            /\ x' = Some(XVars(n, pallets_config.quantidade))
            /\ r' = Some(RVars(n))
            /\ s' = Some(SVars(n))
            /\ status' = st
       ELSE /\ solver' = None
            /\ x' = None
            /\ r' = None
            /\ s' = None
            /\ status' = st

(* Lines 148-156: solver.Solve and the return of its status *)
Solve ==
    \/ \* the model fails validation: there is no search
       /\ ModeloInvalidoConformeVersao(itens, pallets_config)
       /\ solve_status' = MODEL_INVALID
       /\ Retorno(MODEL_INVALID, << >>)
    \/ \* the search ends: an optimal assignment
       /\ ~ModeloInvalido(itens, pallets_config)
       /\ \E vx \in XOptimal(itens, pallets_config), vr \in RSolutions(itens),
             vs \in SSolutions(itens) :
              /\ solve_status' = OPTIMAL
              /\ Retorno(OPTIMAL, vx @@ vr @@ vs)
    \/ \* the search ends: no assignment satisfies the constraints
       /\ ~ModeloInvalido(itens, pallets_config)
       /\ XSolutions(itens, pallets_config) = {}
       /\ solve_status' = INFEASIBLE
       /\ Retorno(INFEASIBLE, << >>)
    \/ \* the time limit expires after an assignment was found
       /\ ~ModeloInvalido(itens, pallets_config)
       /\ \E vx \in XSolutions(itens, pallets_config), vr \in RSolutions(itens),
             vs \in SSolutions(itens) :
              /\ solve_status' = FEASIBLE
              /\ Retorno(FEASIBLE, vx @@ vr @@ vs)
    \/ \* the time limit expires before any assignment was found
       /\ ~ModeloInvalido(itens, pallets_config)
       /\ solve_status' = UNKNOWN
       /\ Retorno(UNKNOWN, << >>)

Otimizar ==
    /\ pc = "inicio"
    /\ pc' = "otimizado"
    /\ solve_calls' = solve_calls + 1
    /\ UNCHANGED <<itens, pallets_config, metricas, erro, mensagens, saidas,
                   optimizer, comparacao, modelos>>
    /\ Solve

-----------------------------------------------------------------------------
(* calcular_metricas *)

(* Items i with solver.Value(x[i, p]) == 1 *)
ItensNaPalete(slv, xs, its, p) ==
    { i \in Range0(Len(its)) : Value(slv, xs[<<i, p>>]) = 1 }

VolumePalete(slv, xs, its, p) ==
    LET I == ItensNaPalete(slv, xs, its, p)
    IN SumOver(I, [i \in I |-> Item(its, i).vol])

PesoPalete(slv, xs, its, p) ==
    LET I == ItensNaPalete(slv, xs, its, p)
    IN SumOver(I, [i \in I |-> Item(its, i).mass])

(* Mutant: every pallet counts as used, loaded or not *)
MutPaletesTodas(slv, xs, its, cfg) ==
    Range0(cfg.quantidade)

(* Pallets with itens_palete > 0 *)
PaletesUsadas(slv, xs, its, cfg) ==
    { p \in Range0(cfg.quantidade) : Cardinality(ItensNaPalete(slv, xs, its, p)) > 0 }

(* A quotient a / b of the code, kept exact as numerator and denominator *)
Quociente(a, b) == [num |-> a, den |-> b]

(* (a / b) * 100 if b > 0 else 0 *)
Taxa(a, b) == IF b > 0 THEN Quociente(a * 100, b) ELSE Quociente(0, 1)

Metricas(slv, xs, its, cfg) ==
    LET U == PaletesUsadas(slv, xs, its, cfg)
        pallets_utilizados == Cardinality(U)
        volume_total_utilizado == SumOver(U, [p \in U |-> VolumePalete(slv, xs, its, p)])
        peso_total_utilizado == SumOver(U, [p \in U |-> PesoPalete(slv, xs, its, p)])
        itens_carregados ==
            SumOver(U, [p \in U |-> Cardinality(ItensNaPalete(slv, xs, its, p))])
        volume_total_disponivel == cfg.capacidade_volume * pallets_utilizados
        peso_total_disponivel == cfg.capacidade_massa * pallets_utilizados
    IN [pallets_utilizados |-> pallets_utilizados,
        itens_carregados |-> itens_carregados,
        itens_total |-> Len(its),
        taxa_utilizacao_itens |-> Quociente(itens_carregados * 100, Len(its)),
        volume_utilizado |-> Quociente(volume_total_utilizado, SCALE_VOL),
        volume_disponivel |-> Quociente(volume_total_disponivel, SCALE_VOL),
        taxa_utilizacao_volume |-> Taxa(volume_total_utilizado, volume_total_disponivel),
        peso_utilizado |-> Quociente(peso_total_utilizado, SCALE_MASS),
        peso_disponivel |-> Quociente(peso_total_disponivel, SCALE_MASS),
        taxa_utilizacao_peso |-> Taxa(peso_total_utilizado, peso_total_disponivel)]

CalcularMetricas ==
    /\ pc = "otimizado"
    /\ pc' = "metricas"
    /\ UNCHANGED <<itens, pallets_config, solver, x, r, s, status, solve_calls,
                   solve_status, mensagens, saidas, optimizer, comparacao, modelos>>
    /\ IF solver = None
       THEN \* if not solver: return {}
            /\ metricas' = Some(<< >>)
            /\ erro' = ""
       ELSE IF Len(itens) = 0
       THEN \* itens_carregados / len(itens) raises
            /\ metricas' = None
            /\ erro' = "ZeroDivisionError"
       ELSE /\ metricas' = Some(Metricas(solver[1], x[1], itens, pallets_config))
            /\ erro' = ""

(* The class used directly: the client calls otimizar and hands what it    *)
(* returned to calcular_metricas.  Neither method shows a message; the     *)
(* guards and the messages of main are in Main and in Comparar.            *)
Next ==
    \/ Otimizar
    \/ CalcularMetricas

Spec == Init /\ [][Next]_vars

-----------------------------------------------------------------------------
(* The scenario of three unit items on one pallet of capacity (2, 2).  The *)
(* items are fragile and not rotatable, which fixes r and s: neither flag  *)
(* enters a constraint on x or the objective.                              *)

ItensUnitarios ==
    { [l |-> 1, w |-> 1, h |-> 1, vol |-> 1, mass |-> 1, f |-> 1, o |-> 0, prioridade |-> pr] :
        pr \in 1 .. 5 }

InitCenario ==
    /\ itens \in [1 .. 3 -> ItensUnitarios]
    /\ pallets_config = [quantidade |-> 1, capacidade_massa |-> 2, capacidade_volume |-> 2]
    /\ pc = "inicio"
    /\ solver = None
    /\ x = None
    /\ r = None
    /\ s = None
    /\ status = ""
    /\ solve_calls = 0
    /\ metricas = None
    /\ erro = ""
    /\ solve_status = ""
    /\ mensagens = << >>
    /\ fig = None
    /\ fig_mpl = None
    /\ resultados = None
    /\ json_data = None
    /\ csv_data = None
    /\ optimizer = PalletOptimizer
    /\ comparacao = None
    /\ modelos = None

SpecCenario == InitCenario /\ [][Next]_vars

-----------------------------------------------------------------------------
(* main: the script run that the press of the optimisation button causes,  *)
(* with the items uploaded from a file.  The item list is not empty (the   *)
(* guard of line 426), the pallet count comes from a slider starting at 1  *)
(* and the capacities from the PBR preset or from the number inputs of a   *)
(* custom pallet, which are floats.                                        *)

(* Line 310: int(vol * SCALE_VOL), vol being the product of line 302 of    *)
(* the columns l, w, h read as binary floating-point numbers of metres.    *)
(* The product is rounded before int() truncates it, so the value is the   *)
(* exact l * w * h * SCALE_VOL or one less: 0.1 * 0.3 * 0.7 * 1000000 is    *)
(* 20999.999999999996.  The function is tabulated, by dimensions in        *)
(* decimetres, for the rows the uploads of the model hold.                 *)
IntVolScale ==
    (<<1, 3, 7>> :> 20999) @@ (<<1, 3, 14>> :> 41999) @@ (<<1, 3, 19>> :> 56999)
    @@ (<<2, 1, 1>> :> 2000) @@ (<<2, 1, 3>> :> 6000) @@ (<<30, 1, 1>> :> 30000)
    @@ (<<10, 10, 12>> :> 1200000) @@ (<<10, 10, 6>> :> 600000)
    @@ (<<200, 100, 100>> :> 2000000000)

(* Line 311: int(float(row['mass']) * SCALE_MASS), tabulated by the mass    *)
(* column in thousandths of a kg: 1.001 * 1000 is 1000.9999999999999       *)
IntMassScale ==
    (0 :> 0) @@ (1000 :> 1000) @@ (1001 :> 1000)
    @@ (500000 :> 500000) @@ (1000000 :> 1000000) @@ (2001000 :> 2001000)

(* Lines 302-316: the item of an uploaded row with the columns l, w, h in  *)
(* decimetres and the column mass in thousandths of a kg                   *)
ItemUpload(l, w, h, mass, f, o, prioridade) ==
    [l |-> l, w |-> w, h |-> h, vol |-> IntVolScale[<<l, w, h>>],
     mass |-> IntMassScale[mass], f |-> f, o |-> o, prioridade |-> prioridade]

(* An item of 0.1 x 0.3 x 0.7 m and 1.001 kg, a rotatable item whose mass  *)
(* column is 0, an item 3 m long; all are fragile, which fixes the s       *)
(* variables at 0: main reads none of them                                 *)
ItemKindsMain ==
    { ItemUpload(1, 3, 7, 1001, 1, 0, 1),
      ItemUpload(2, 1, 3, 0, 1, 1, 2),
      ItemUpload(30, 1, 1, 1000, 1, 0, 1) }

ItemListsMain == UNION { [1 .. n -> ItemKindsMain] : n \in 1 .. MaxItens }

(* Lines 347-353: the PBR preset; its capacities are Python integers *)
PresetPBR(q) ==
    [quantidade |-> q, capacidade_massa |-> 1000 * SCALE_MASS,
     capacidade_volume |-> 216 * (SCALE_VOL \div 100), tipo |-> "PBR"]

(* Lines 354-360: the European preset; its capacities are Python integers *)
PresetEuropeia(q) ==
    [quantidade |-> q, capacidade_massa |-> 800 * SCALE_MASS,
     capacidade_volume |-> 1728 * (SCALE_VOL \div 1000), tipo |-> "Europeia"]

(* Lines 361-368: a custom pallet with the number inputs left at 1000.0 kg *)
(* and 2.16 m3; a number input returns a float, and so the capacities are  *)
(* the floats 1000000.0 and 2160000.0                                      *)
Personalizada(q) ==
    [quantidade |-> q, capacidade_massa |-> 1000 * SCALE_MASS,
     capacidade_volume |-> 216 * (SCALE_VOL \div 100), tipo |-> "Personalizada"]

(* Whether the capacities of cfg are Python floats *)
CapacidadeFloat(cfg) == cfg.tipo = "Personalizada"

ConfigsMain ==
    { PresetPBR(q) : q \in 1 .. MaxPallets }
    \cup { Personalizada(q) : q \in 1 .. MaxPallets }

(* Line 319: shown in every script run once the uploaded file is read *)
MsgItensCarregados(n) == [tipo |-> "success", texto |-> "itens carregados!", n |-> n]

InitMain ==
    /\ itens \in ItemListsMain
    /\ pallets_config \in ConfigsMain
    /\ pc = "inicio"
    /\ solver = None
    /\ x = None
    /\ r = None
    /\ s = None
    /\ status = ""
    /\ solve_calls = 0
    /\ metricas = None
    /\ erro = ""
    /\ solve_status = ""
    /\ mensagens = <<MsgItensCarregados(Len(itens))>>
    /\ fig = None
    /\ fig_mpl = None
    /\ resultados = None
    /\ json_data = None
    /\ csv_data = None
    /\ optimizer = PalletOptimizer
    /\ comparacao = None
    /\ modelos = None

MsgSucesso == [tipo |-> "success", texto |-> "Otimizacao concluida com sucesso!"]
MsgSemSolucao == [tipo |-> "error", texto |-> "Nao foi possivel encontrar uma solucao viavel."]
MsgInfeasible == [tipo |-> "warning", texto |-> "Problema infeasivel."]
MsgModeloInvalido == [tipo |-> "warning", texto |-> "Modelo invalido."]

(* Lines 430-431 and 591-596: the messages main shows for what otimizar returned *)
MensagensMain(slv, st) ==
    IF slv # None
    THEN <<MsgSucesso>>
    ELSE <<MsgSemSolucao>> \o
         (IF st = INFEASIBLE THEN <<MsgInfeasible>>
          ELSE IF st = MODEL_INVALID THEN <<MsgModeloInvalido>>
          ELSE << >>)

(* Distance between the origins of consecutive pallets, in decimetres: 2.5 m *)
(* in the plotly figure, 2.0 m in the matplotlib figure                      *)
OffsetPlotly == 25
OffsetMpl == 20

(* Mutant: the height cursor is not advanced *)
RECURSIVE MutEmpilharSemAvancar(_, _, _, _, _, _, _, _)
MutEmpilharSemAvancar(slv, xs, rs, its, p, offset_x, i, z_top) ==
    IF i >= Len(its) THEN << >>
    ELSE IF Value(slv, xs[<<i, p>>]) = 1
    THEN LET orient == Orientacao(slv, rs, i)
             d == permutacoes(Item(its, i).l, Item(its, i).w, Item(its, i).h)[orient + 1]
         IN <<[palete |-> p, item |-> i, x0 |-> offset_x, y0 |-> 0, z0 |-> z_top,
               l |-> d[1], w |-> d[2], h |-> d[3]]>>
            \o MutEmpilharSemAvancar(slv, xs, rs, its, p, offset_x, i + 1, z_top)
    ELSE MutEmpilharSemAvancar(slv, xs, rs, its, p, offset_x, i + 1, z_top)

(* The loop over the items of pallet p, from item i on with the height     *)
(* cursor at z_top: one box per item of the pallet                         *)
RECURSIVE Empilhar(_, _, _, _, _, _, _, _)
Empilhar(slv, xs, rs, its, p, offset_x, i, z_top) ==
    IF i >= Len(its) THEN << >>
    ELSE IF Value(slv, xs[<<i, p>>]) = 1
    THEN LET orient == Orientacao(slv, rs, i)
             d == permutacoes(Item(its, i).l, Item(its, i).w, Item(its, i).h)[orient + 1]
         IN <<[palete |-> p, item |-> i, x0 |-> offset_x, y0 |-> 0, z0 |-> z_top,
               l |-> d[1], w |-> d[2], h |-> d[3]]>>
            \o Empilhar(slv, xs, rs, its, p, offset_x, i + 1, z_top + d[3])
    ELSE Empilhar(slv, xs, rs, its, p, offset_x, i + 1, z_top)

(* criar_visualizacao_3d from pallet p on: offset_x = p * 2.5 *)
RECURSIVE TorresPlotly(_, _, _, _, _, _)
TorresPlotly(slv, xs, rs, its, cfg, p) ==
    IF p >= cfg.quantidade THEN << >>
    ELSE Empilhar(slv, xs, rs, its, p, p * OffsetPlotly, 0, 0)
         \o TorresPlotly(slv, xs, rs, its, cfg, p + 1)

criar_visualizacao_3d(its, slv, xs, rs, cfg) ==
    TorresPlotly(slv, xs, rs, its, cfg, 0)

(* visualizar_matplotlib from pallet p on: offset_x += 2.0 after each pallet *)
RECURSIVE TorresMpl(_, _, _, _, _, _, _)
TorresMpl(slv, xs, rs, its, cfg, p, offset_x) ==
    IF p >= cfg.quantidade THEN << >>
    ELSE Empilhar(slv, xs, rs, its, p, offset_x, 0, 0)
         \o TorresMpl(slv, xs, rs, its, cfg, p + 1, offset_x + OffsetMpl)

visualizar_matplotlib(its, slv, xs, rs, cfg) ==
    TorresMpl(slv, xs, rs, its, cfg, 0, 0)

(* Mutant: the loops are nested the other way round, item by item and      *)
(* pallet by pallet                                                         *)
RECURSIVE MutAlocacaoPorItem(_, _, _, _, _, _)
MutAlocacaoPorItem(slv, xs, rs, its, cfg, k) ==
    IF cfg.quantidade = 0 \/ k >= cfg.quantidade * Len(its) THEN << >>
    ELSE LET i == k \div cfg.quantidade
             p == k % cfg.quantidade
         IN (IF Value(slv, xs[<<i, p>>]) = 1
             THEN <<[item_id |-> i, palete |-> p, orientacao |-> Orientacao(slv, rs, i)]>>
             ELSE << >>)
            \o MutAlocacaoPorItem(slv, xs, rs, its, cfg, k + 1)

(* Lines 546-555: resultados['alocacao'], pallet by pallet and item by item; *)
(* k counts the (p, i) pairs of the two nested loops                         *)
RECURSIVE AlocacaoAPartir(_, _, _, _, _, _)
AlocacaoAPartir(slv, xs, rs, its, cfg, k) ==
    IF Len(its) = 0 \/ k >= cfg.quantidade * Len(its) THEN << >>
    ELSE LET p == k \div Len(its)
             i == k % Len(its)
         IN (IF Value(slv, xs[<<i, p>>]) = 1
             THEN <<[item_id |-> i, palete |-> p, orientacao |-> Orientacao(slv, rs, i)]>>
             ELSE << >>)
            \o AlocacaoAPartir(slv, xs, rs, its, cfg, k + 1)

Alocacao(slv, xs, rs, its, cfg) ==
    AlocacaoAPartir(slv, xs, rs, its, cfg, 0)

(* An integer n >= 0 as text: its decimal digits *)
Digitos == <<"0", "1", "2", "3", "4", "5", "6", "7", "8", "9">>

RECURSIVE FmtInt(_)
FmtInt(n) ==
    IF n < 10 THEN <<Digitos[n + 1]>>
    ELSE FmtInt(n \div 10) \o <<Digitos[(n % 10) + 1]>>

(* Mutant: the CSV writes the pallet index as it is *)
MutCsvPaleteBaseZero(aloc) ==
    [k \in DOMAIN aloc |->
        [Item_ID |-> FmtInt(aloc[k].item_id),
         Palete |-> FmtInt(aloc[k].palete),
         Orientacao |-> FmtInt(aloc[k].orientacao)]]

(* json.dumps of the allocation entries: the three integers of each entry *)
JsonDumps(aloc) ==
    [k \in DOMAIN aloc |->
        [item_id |-> FmtInt(aloc[k].item_id),
         palete |-> FmtInt(aloc[k].palete),
         orientacao |-> FmtInt(aloc[k].orientacao)]]

(* Lines 568-582: the rows of df_resultado as to_csv writes them *)
ToCsv(aloc) ==
    [k \in DOMAIN aloc |->
        [Item_ID |-> FmtInt(aloc[k].item_id),
         Palete |-> FmtInt(aloc[k].palete + 1),
         Orientacao |-> FmtInt(aloc[k].orientacao)]]

(* Lines 496-531: the summary of every pallet that holds an item divides   *)
(* its volume by capacidade_volume and its mass by capacidade_massa; the   *)
(* capacities of the presets are positive, and a custom pallet does not    *)
(* get as far as line 496                                                  *)
DetalhamentoFalha(slv, xs, its, cfg) ==
    /\ \E p \in Range0(cfg.quantidade) : ItensNaPalete(slv, xs, its, p) # {}
    /\ (cfg.capacidade_volume = 0 \/ cfg.capacidade_massa = 0)

Main ==
    /\ pc = "inicio"
    /\ Len(itens) > 0
    /\ pc' = "fim"
    /\ IF CapacidadeFloat(pallets_config)
       THEN \* lines 133-135: model.Add refuses a comparison of the sum with a
            \* float; otimizar raises before Solve and main shows nothing more
            /\ erro' = "TypeError"
            /\ UNCHANGED <<solver, x, r, s, status, solve_calls, solve_status,
                           metricas, mensagens, saidas>>
       ELSE /\ solve_calls' = solve_calls + 1
            /\ Solve
            /\ mensagens' = mensagens \o MensagensMain(solver', status')
            /\ IF solver' # None
               THEN /\ metricas' =
                         Some(Metricas(solver'[1], x'[1], itens, pallets_config))
                    /\ fig' = Some(criar_visualizacao_3d(itens, solver'[1], x'[1],
                                                         r'[1], pallets_config))
                    \* line 469: the checkbox is created in this run and returns
                    \* False, so visualizar_matplotlib is not called; ticking it
                    \* starts a run in which the button is not pressed and line
                    \* 426 fails
                    /\ fig_mpl' = None
                    /\ IF DetalhamentoFalha(solver'[1], x'[1], itens, pallets_config)
                       THEN /\ erro' = "ZeroDivisionError"
                            /\ UNCHANGED <<resultados, json_data, csv_data>>
                       ELSE /\ erro' = ""
                            /\ resultados' = Some(Alocacao(solver'[1], x'[1], r'[1],
                                                           itens, pallets_config))
                            /\ json_data' = Some(JsonDumps(resultados'[1]))
                            /\ csv_data' = Some(ToCsv(resultados'[1]))
               ELSE /\ metricas' = None
                    /\ erro' = ""
                    /\ UNCHANGED saidas
    /\ UNCHANGED <<itens, pallets_config, optimizer, comparacao, modelos>>

NextMain ==
    Main

SpecMain == InitMain /\ [][NextMain]_vars

-----------------------------------------------------------------------------
(* main: one press of the scenario comparison button.  Two otimizar calls  *)
(* on the same optimizer and the same items, with the pallet count and the *)
(* mass capacity of each scenario taken from sliders and the volume        *)
(* capacity from the pallet configuration.                                 *)

(* Uploaded items of 1.2 m3 and 500 kg, and of 0.6 m3 and 1000 kg *)
ItemKindsComparar ==
    { ItemUpload(10, 10, 12, 500000, 0, 0, 1),
      ItemUpload(10, 10, 6, 1000000, 1, 0, 3) }

ItemListsComparar == UNION { [1 .. n -> ItemKindsComparar] : n \in 1 .. MaxItens }

(* sim_peso_a and sim_peso_b, in kg *)
PesosSimulados == {1000, 1500}

(* capacidade_volume of the PBR and of the European preset *)
VolumesComparar == {216 * (SCALE_VOL \div 100), 1728 * (SCALE_VOL \div 1000)}

(* The PBR and the European preset with one pallet *)
PresetsComparar == { PresetPBR(1), PresetEuropeia(1) }

InitComparar ==
    /\ itens \in ItemListsComparar
    /\ pallets_config \in PresetsComparar
    /\ pc = "inicio"
    /\ solver = None
    /\ x = None
    /\ r = None
    /\ s = None
    /\ status = ""
    /\ solve_calls = 0
    /\ metricas = None
    /\ erro = ""
    /\ solve_status = ""
    /\ mensagens = <<MsgItensCarregados(Len(itens))>>
    /\ fig = None
    /\ fig_mpl = None
    /\ resultados = None
    /\ json_data = None
    /\ csv_data = None
    /\ optimizer = PalletOptimizer
    /\ comparacao = None
    /\ modelos = None

(* What one otimizar call can return for its and cfg, as far as the         *)
(* comparison reads it: the status and the assignment of the x variables   *)
(* (r and s are returned and not read)                                      *)
RetornosOtimizar(its, cfg) ==
    (IF ModeloInvalidoConformeVersao(its, cfg)
     THEN { [status |-> MODEL_INVALID, solver |-> None] }
     ELSE {})
    \cup
    (IF ModeloInvalido(its, cfg)
     THEN {}
     ELSE { [status |-> OPTIMAL, solver |-> Some(v)] : v \in XOptimal(its, cfg) }
          \cup { [status |-> FEASIBLE, solver |-> Some(v)] : v \in XSolutions(its, cfg) }
          \cup (IF XSolutions(its, cfg) = {}
                THEN { [status |-> INFEASIBLE, solver |-> None] }
                ELSE {})
          \cup { [status |-> UNKNOWN, solver |-> None] })

(* The objective of the assignment a call returned, None without one *)
ObjetivoDe(ret, its, cfg) ==
    IF ret.solver = None THEN None
    ELSE Some(Objetivo(ret.solver[1], XVars(Len(its), cfg.quantidade), its, cfg.quantidade))

(* The greatest common divisor of a >= 0 and b >= 0 *)
RECURSIVE Mdc(_, _)
Mdc(a, b) == IF b = 0 THEN a ELSE Mdc(b, a % b)

(* Whether quotient q1 is greater than quotient q2, both denominators       *)
(* positive; each is reduced to lowest terms before the cross product       *)
MaiorQue(q1, q2) ==
    LET g1 == Mdc(q1.num, q1.den)
        g2 == Mdc(q2.num, q2.den)
    IN (q1.num \div g1) * (q2.den \div g2) > (q2.num \div g2) * (q1.den \div g1)

(* Lines 828-833 *)
Recomendacao(metricas_a, metricas_b) ==
    IF metricas_b.itens_carregados > metricas_a.itens_carregados THEN "B"
    ELSE IF MaiorQue(metricas_a.taxa_utilizacao_volume, metricas_b.taxa_utilizacao_volume)
    THEN "A"
    ELSE "equivalentes"

MsgSimulacao == [tipo |-> "success", texto |-> "Simulacao concluida!"]
MsgErroSimulacao == [tipo |-> "error", texto |-> "Erro na simulacao dos cenarios"]
MsgRecomendacaoB ==
    [tipo |-> "success", texto |-> "Recomendacao: Cenario B e superior - carrega mais itens!"]
MsgRecomendacaoEquivalentes ==
    [tipo |-> "warning",
     texto |-> "Recomendacao: Cenarios equivalentes - considere outros fatores"]

(* Lines 800-836: what a comparison shows; the recommendation of scenario  *)
(* A is an st.info (line 832), which mensagens does not record             *)
MensagensComparar(ambos, recomendacao) ==
    IF ~ambos THEN <<MsgErroSimulacao>>
    ELSE <<MsgSimulacao>>
         \o (IF recomendacao = "B" THEN <<MsgRecomendacaoB>>
             ELSE IF recomendacao = "equivalentes" THEN <<MsgRecomendacaoEquivalentes>>
             ELSE << >>)

Comparar ==
    /\ pc = "inicio"
    /\ Len(itens) > 0
    /\ pc' = "comparado"
    /\ IF CapacidadeFloat(pallets_config)
       THEN \* capacidade_volume of both scenarios is the float of the custom
            \* pallet: the first otimizar call raises at lines 136-138
            /\ erro' = "TypeError"
            /\ UNCHANGED <<solve_calls, comparacao, mensagens>>
       ELSE /\ erro' = ""
            /\ solve_calls' = solve_calls + 2
            /\ \E sim_pallets_a, sim_pallets_b \in 1 .. MaxPallets,
                  sim_peso_a, sim_peso_b \in PesosSimulados :
                 LET config_a == [quantidade |-> sim_pallets_a,
                                  capacidade_massa |-> sim_peso_a * SCALE_MASS,
                                  capacidade_volume |-> pallets_config.capacidade_volume]
                     config_b == [quantidade |-> sim_pallets_b,
                                  capacidade_massa |-> sim_peso_b * SCALE_MASS,
                                  capacidade_volume |-> pallets_config.capacidade_volume]
                 IN \E ret_a \in RetornosOtimizar(itens, config_a),
                       ret_b \in RetornosOtimizar(itens, config_b) :
                      LET ambos == ret_a.solver # None /\ ret_b.solver # None
                          metricas_a == Metricas(ret_a.solver[1], XVars(Len(itens), sim_pallets_a),
                                                 itens, config_a)
                          metricas_b == Metricas(ret_b.solver[1], XVars(Len(itens), sim_pallets_b),
                                                 itens, config_b)
                      IN /\ comparacao' =
                              Some([config_a |-> config_a, config_b |-> config_b,
                                    status_a |-> ret_a.status, status_b |-> ret_b.status,
                                    objetivo_a |-> ObjetivoDe(ret_a, itens, config_a),
                                    objetivo_b |-> ObjetivoDe(ret_b, itens, config_b),
                                    metricas_a |-> IF ambos THEN Some(metricas_a) ELSE None,
                                    metricas_b |-> IF ambos THEN Some(metricas_b) ELSE None,
                                    recomendacao |-> IF ambos
                                                     THEN Recomendacao(metricas_a, metricas_b)
                                                     ELSE ""])
                         /\ mensagens' = mensagens \o MensagensComparar(ambos, comparacao'[1].recomendacao)
    /\ UNCHANGED <<itens, pallets_config, solver, x, r, s, status, metricas,
                   solve_status, saidas, optimizer, modelos>>

NextComparar ==
    Comparar

SpecComparar == InitComparar /\ [][NextComparar]_vars

-----------------------------------------------------------------------------
(* The two callers of otimizar in main, the optimisation handler and the   *)
(* scenario comparison, over uploaded lists on which Solve ends with every *)
(* status main can meet: lists of an item of 1 kg and of an item of       *)
(* 2000 m3 and 2001 kg, which fits on no pallet, with a priority of        *)
(* 2 * 10^9.  Its coefficient in the objective is 4 * 10^18: once on one   *)
(* pallet the objective fits in half of the 64-bit range, twice on two     *)
(* pallets it does not fit in a 64-bit integer.                            *)
ItemKindsStatus ==
    { ItemUpload(2, 1, 1, 1000, 1, 0, 1),
      ItemUpload(200, 100, 100, 2001000, 1, 0, 2000000000) }

ItemListsStatus == UNION { [1 .. n -> ItemKindsStatus] : n \in 1 .. MaxItens }

InitStatus ==
    /\ itens \in ItemListsStatus
    /\ pallets_config \in ConfigsMain
    /\ pc = "inicio"
    /\ solver = None
    /\ x = None
    /\ r = None
    /\ s = None
    /\ status = ""
    /\ solve_calls = 0
    /\ metricas = None
    /\ erro = ""
    /\ solve_status = ""
    /\ mensagens = <<MsgItensCarregados(Len(itens))>>
    /\ fig = None
    /\ fig_mpl = None
    /\ resultados = None
    /\ json_data = None
    /\ csv_data = None
    /\ optimizer = PalletOptimizer
    /\ comparacao = None
    /\ modelos = None

(* One script run: the press of the optimisation button or of the          *)
(* comparison button                                                       *)
NextStatus ==
    \/ Main
    \/ Comparar

SpecStatus == InitStatus /\ [][NextStatus]_vars

-----------------------------------------------------------------------------
(* The model otimizar builds, as a function of its arguments: the           *)
(* assignments of each family of variables that satisfy the posted          *)
(* constraints, and the optimum of the objective.  It is built here for an  *)
(* item list and for a second list that differs from it in the fragile      *)
(* flags only.                                                              *)

ItemKindsModelo ==
    { [l |-> 2, w |-> 1, h |-> 1, vol |-> 2, mass |-> 1, f |-> 0, o |-> 0, prioridade |-> 1],
      [l |-> 1, w |-> 1, h |-> 1, vol |-> 1, mass |-> 2, f |-> 1, o |-> 1, prioridade |-> 3] }

ItemListsModelo == UNION { [1 .. n -> ItemKindsModelo] : n \in 1 .. MaxItens }

CapacidadesModelo ==
    { <<2, 3>>, <<3, 2>>, <<3, 3>> }

InitModelo ==
    /\ itens \in ItemListsModelo
    /\ pallets_config \in
          { [quantidade |-> q, capacidade_massa |-> c[1], capacidade_volume |-> c[2]] :
              q \in 1 .. MaxPallets, c \in CapacidadesModelo }
    /\ pc = "inicio"
    /\ solver = None
    /\ x = None
    /\ r = None
    /\ s = None
    /\ status = ""
    /\ solve_calls = 0
    /\ metricas = None
    /\ erro = ""
    /\ solve_status = ""
    /\ mensagens = << >>
    /\ fig = None
    /\ fig_mpl = None
    /\ resultados = None
    /\ json_data = None
    /\ csv_data = None
    /\ optimizer = PalletOptimizer
    /\ comparacao = None
    /\ modelos = None

(* The lists equal to its but for the fragile flags *)
VariantesFragil(its) ==
    { [k \in DOMAIN its |-> [its[k] EXCEPT !.f = b[k]]] : b \in [DOMAIN its -> {0, 1}] }

(* Lines 91-146: the model of otimizar(its, cfg) *)
Modelo(its, cfg) ==
    LET sols == XSolutions(its, cfg)
    IN [x |-> sols,
        r |-> RSolutions(its),
        s |-> SSolutions(its),
        otimo |-> IF sols = {} THEN None ELSE Some(MaxObjetivo(sols, its, cfg))]

ConstruirModelos ==
    /\ pc = "inicio"
    /\ pc' = "modelos"
    /\ \E its_b \in VariantesFragil(itens) :
          modelos' = Some([itens_b |-> its_b,
                           a |-> Modelo(itens, pallets_config),
                           b |-> Modelo(its_b, pallets_config)])
    /\ UNCHANGED <<itens, pallets_config, solver, x, r, s, status, solve_calls, metricas,
                   erro, solve_status, mensagens, saidas, optimizer, comparacao>>

NextModelo ==
    ConstruirModelos

SpecModelo == InitModelo /\ [][NextModelo]_vars

(* The same, over the arguments otimizar accepts at the edge: the empty    *)
(* item list, no pallet, a capacity of zero and a negative capacity        *)
ItemListsSatisfazivel == UNION { [1 .. n -> ItemKindsModelo] : n \in 0 .. MaxItens }

CapacidadesSatisfazivel ==
    { <<0, 0>>, <<0, 3>>, <<2, 3>>, <<3, -1>>, <<-1, 3>> }

InitSatisfazivel ==
    /\ itens \in ItemListsSatisfazivel
    /\ pallets_config \in
          { [quantidade |-> q, capacidade_massa |-> c[1], capacidade_volume |-> c[2]] :
              q \in 0 .. MaxPallets, c \in CapacidadesSatisfazivel }
    /\ pc = "inicio"
    /\ solver = None
    /\ x = None
    /\ r = None
    /\ s = None
    /\ status = ""
    /\ solve_calls = 0
    /\ metricas = None
    /\ erro = ""
    /\ solve_status = ""
    /\ mensagens = << >>
    /\ fig = None
    /\ fig_mpl = None
    /\ resultados = None
    /\ json_data = None
    /\ csv_data = None
    /\ optimizer = PalletOptimizer
    /\ comparacao = None
    /\ modelos = None

SpecSatisfazivel == InitSatisfazivel /\ [][NextModelo]_vars

-----------------------------------------------------------------------------
(* Reading a returned solution *)

Resolvido == pc # "inicio" /\ status \in {OPTIMAL, FEASIBLE}

N == Len(itens)
Paletes == Range0(pallets_config.quantidade)

XVal(i, p) == Value(solver[1], x[1][<<i, p>>])
RVal(i, k) == Value(solver[1], r[1][<<i, k>>])
SVal(i, j) == Value(solver[1], s[1][<<i, j>>])

PaletesDe(i) == { p \in Paletes : XVal(i, p) = 1 }
Carregado(i) == PaletesDe(i) # {}
ItensEm(p) == { i \in Range0(N) : XVal(i, p) = 1 }

MassaEm(p) == SumOver(ItensEm(p), [i \in ItensEm(p) |-> Item(itens, i).mass])
VolumeEm(p) == SumOver(ItensEm(p), [i \in ItensEm(p) |-> Item(itens, i).vol])

(* Sum of vol(i) * prioridade(i) over the loaded items *)
ValorCarregado ==
    LET L == { i \in Range0(N) : Carregado(i) }
    IN SumOver(L, [i \in L |-> Item(itens, i).vol * Item(itens, i).prioridade])

-----------------------------------------------------------------------------
(* C1: in every solution returned with status OPTIMAL or FEASIBLE, every   *)
(* item has at most one pallet p with x[i,p] = 1 (an item with none is     *)
(* allowed).                                                               *)
C1_NoMaximoUmaPalete ==
    Resolvido => \A i \in Range0(N) : Cardinality(PaletesDe(i)) <= 1

(* A solution over two or more pallets with one item loaded and another not *)
C1_Witness ==
    /\ Resolvido
    /\ pallets_config.quantidade >= 2
    /\ \E i, j \in Range0(N) :
         /\ Cardinality(PaletesDe(i)) = 1
         /\ Cardinality(PaletesDe(j)) = 0

(* C2: in every solution returned with status OPTIMAL or FEASIBLE, on every *)
(* pallet the masses of its items sum to at most capacidade_massa and their *)
(* volumes to at most capacidade_volume.                                    *)
C2_Capacidade ==
    Resolvido =>
        \A p \in Paletes :
            /\ MassaEm(p) <= pallets_config.capacidade_massa
            /\ VolumeEm(p) <= pallets_config.capacidade_volume

(* A pallet holding two items and filled exactly to both capacities *)
C2_Witness ==
    /\ Resolvido
    /\ \E p \in Paletes :
         /\ Cardinality(ItensEm(p)) >= 2
         /\ MassaEm(p) = pallets_config.capacidade_massa
         /\ VolumeEm(p) = pallets_config.capacidade_volume

(* C3: in every returned solution, for distinct items i and j, s[i,j] = 0   *)
(* when j is fragile and s[i,j] = 0 when mass(i) > mass(j).                 *)
C3_Empilhamento ==
    Resolvido =>
        \A i, j \in Range0(N) :
            i # j =>
                /\ (Item(itens, j).f # 0 => SVal(i, j) = 0)
                /\ (Item(itens, i).mass > Item(itens, j).mass => SVal(i, j) = 0)

(* Item i is no heavier than the fragile item j, so only fragility forces  *)
(* s[i,j] = 0, while the pair the other way round rests: s[j,i] = 1        *)
C3_Witness ==
    /\ Resolvido
    /\ \E i, j \in Range0(N) :
         /\ i # j
         /\ Item(itens, j).f # 0
         /\ Item(itens, i).mass <= Item(itens, j).mass
         /\ SVal(i, j) = 0
         /\ SVal(j, i) = 1

(* C4: in every returned solution a non-rotatable item (o = 0) has          *)
(* orientation index 0, so its placement uses (l, w, h) in that order.      *)
C4_NaoRotacionavel ==
    Resolvido =>
        \A i \in Range0(N) :
            Item(itens, i).o = 0 =>
                LET it == Item(itens, i)
                    orient == Orientacao(solver[1], r[1], i)
                IN /\ orient = 0
                   /\ permutacoes(it.l, it.w, it.h)[orient + 1] = <<it.l, it.w, it.h>>

(* A loaded non-rotatable item with l # w beside a rotatable item turned    *)
(* to another orientation                                                   *)
C4_Witness ==
    /\ Resolvido
    /\ \E i, j \in Range0(N) :
         /\ Item(itens, i).o = 0
         /\ Item(itens, i).l # Item(itens, i).w
         /\ Carregado(i)
         /\ Orientacao(solver[1], r[1], i) = 0
         /\ Item(itens, j).o # 0
         /\ Orientacao(solver[1], r[1], j) > 0

(* C5: in every returned solution every item, loaded or not, rotatable or   *)
(* not, has exactly one orientation index m in 0..5 with r[i,m] = 1, and    *)
(* the orientation lookup returns that index.                               *)
C5_UmaOrientacao ==
    Resolvido =>
        \A i \in Range0(N) :
            LET orient == Orientacao(solver[1], r[1], i)
            IN /\ orient \in Range0(NumRotacoes)
               /\ \A m \in Range0(NumRotacoes) : RVal(i, m) = 1 <=> m = orient

(* A rotatable item left unloaded with orientation 5 beside a loaded        *)
(* non-rotatable one                                                        *)
C5_Witness ==
    /\ Resolvido
    /\ \E i, j \in Range0(N) :
         /\ Item(itens, i).o # 0
         /\ ~Carregado(i)
         /\ Orientacao(solver[1], r[1], i) = NumRotacoes - 1
         /\ Item(itens, j).o = 0
         /\ Carregado(j)

(* The loadings the claim quantifies over: each item on one pallet or on    *)
(* none (-1); a loading is admissible when it is within both capacities on  *)
(* every pallet                                                             *)
Carregamentos == [Range0(N) -> Paletes \cup {-1}]

Admissivel(c) ==
    \A p \in Paletes :
        LET I == { i \in Range0(N) : c[i] = p }
        IN /\ SumOver(I, [i \in I |-> Item(itens, i).mass])
                <= pallets_config.capacidade_massa
           /\ SumOver(I, [i \in I |-> Item(itens, i).vol])
                <= pallets_config.capacidade_volume

ValorDe(c) ==
    LET L == { i \in Range0(N) : c[i] # -1 }
    IN SumOver(L, [i \in L |-> Item(itens, i).vol * Item(itens, i).prioridade])

(* The loading a returned solution describes *)
CarregamentoRetornado ==
    [i \in Range0(N) |->
        IF Carregado(i) THEN CHOOSE p \in Paletes : XVal(i, p) = 1 ELSE -1]

(* C6: when the status is OPTIMAL, the sum of vol(i) * prioridade(i) over   *)
(* the loaded items equals the maximum of that sum over all loadings that   *)
(* respect at-most-one-pallet and both capacities of every pallet: the      *)
(* returned loading is admissible, and no admissible loading is worth more. *)
C6_Otimo ==
    (pc # "inicio" /\ status = OPTIMAL) =>
        LET valor == ValorCarregado
        IN /\ \A i \in Range0(N) : Cardinality(PaletesDe(i)) <= 1
           /\ Admissivel(CarregamentoRetornado)
           /\ ValorDe(CarregamentoRetornado) = valor
           /\ \A c \in Carregamentos : ValorDe(c) > valor => ~Admissivel(c)

(* An optimum that leaves an item of positive value behind and loads a      *)
(* heavier item of higher value than the one left                           *)
C6_Witness ==
    /\ pc # "inicio"
    /\ status = OPTIMAL
    /\ \E i, j \in Range0(N) :
         /\ Carregado(i)
         /\ ~Carregado(j)
         /\ Item(itens, j).vol > 0
         /\ Item(itens, i).mass > Item(itens, j).mass
         /\ Item(itens, i).vol * Item(itens, i).prioridade
              > Item(itens, j).vol * Item(itens, j).prioridade

(* The two highest vol * prioridade products of a three-item list, summed *)
DoisMaiores ==
    LET v == [i \in Range0(3) |-> Item(itens, i).vol * Item(itens, i).prioridade]
        menor == CHOOSE m \in { v[i] : i \in Range0(3) } : \A i \in Range0(3) : m <= v[i]
    IN v[0] + v[1] + v[2] - menor

(* C7: three items of volume 1 and mass 1 with priorities in 1..5 and one   *)
(* pallet of capacity (2, 2): an OPTIMAL solution loads exactly two of the  *)
(* three and its objective is the sum of the two highest products.          *)
C7_Cenario ==
    (pc # "inicio" /\ status = OPTIMAL) =>
        /\ Cardinality({ i \in Range0(N) : Carregado(i) }) = 2
        /\ ValorCarregado = DoisMaiores

(* Priorities 1, 5, 3: the optimum loads the items of priority 5 and 3 *)
C7_Witness ==
    /\ pc # "inicio"
    /\ status = OPTIMAL
    /\ Item(itens, 0).prioridade = 1
    /\ Item(itens, 1).prioridade = 5
    /\ Item(itens, 2).prioridade = 3
    /\ ~Carregado(0)
    /\ Carregado(1)
    /\ Carregado(2)
    /\ ValorCarregado = 8

(* The inputs the builder is to refuse *)
ConfiguracaoInvalida ==
    \/ pallets_config.quantidade < 1
    \/ pallets_config.capacidade_massa <= 0
    \/ pallets_config.capacidade_volume <= 0
    \/ \E i \in Range0(N) :
         \/ Item(itens, i).l <= 0
         \/ Item(itens, i).w <= 0
         \/ Item(itens, i).h <= 0
         \/ Item(itens, i).mass <= 0

(* C8: otimizar fails with InvalidConfiguration, without invoking the       *)
(* solver, when the pallet count is < 1, a capacity is <= 0 or an item has  *)
(* a non-positive dimension or mass.                                        *)
C8_ConfiguracaoRejeitada ==
    (pc # "inicio" /\ ConfiguracaoInvalida) =>
        /\ erro = "InvalidConfiguration"
        /\ solve_calls = 0

(* C9: no sequence of otimizar and calcular_metricas calls on an empty item *)
(* list reaches the division by len(itens) = 0: the empty list is rejected  *)
(* before.                                                                  *)
C9_SemDivisaoPorZero ==
    Len(itens) = 0 => erro # "ZeroDivisionError"

(* C10: every call of otimizar returns one of the four statuses OPTIMAL,    *)
(* FEASIBLE, INFEASIBLE, MODEL_INVALID, also when the time limit expires    *)
(* before any solution is found.                                            *)
C10_QuatroStatus ==
    pc # "inicio" => status \in {OPTIMAL, FEASIBLE, INFEASIBLE, MODEL_INVALID}

(* C11: otimizar returns the solver and the dictionaries x, r, s exactly    *)
(* when the status is OPTIMAL or FEASIBLE; for any other status all four    *)
(* are None; and calcular_metricas called with a None solver returns the    *)
(* empty result, raising nothing.                                           *)
C11_RetornoOuNone ==
    pc # "inicio" =>
        /\ status \in {OPTIMAL, FEASIBLE} =>
             (solver # None /\ x # None /\ r # None /\ s # None)
        /\ status \notin {OPTIMAL, FEASIBLE} =>
             (solver = None /\ x = None /\ r = None /\ s = None)
        /\ (pc = "metricas" /\ solver = None) => (metricas = Some(<< >>) /\ erro = "")

(* calcular_metricas has returned {} after a solve that ended INFEASIBLE on *)
(* a non-empty item list                                                    *)
C11_Witness ==
    /\ pc = "metricas"
    /\ status = INFEASIBLE
    /\ Len(itens) > 0
    /\ solver = None
    /\ x = None
    /\ metricas = Some(<< >>)

(* Whether main has shown the message m *)
Mostrada(m) == \E k \in DOMAIN mensagens : mensagens[k] = m

(* The optimisation handler, lines 428-431 and 591-596, after a solve:     *)
(* status is the status Solve returned, success is shown for OPTIMAL and   *)
(* FEASIBLE only, and INFEASIBLE and MODEL_INVALID each have their warning *)
StatusPreservadoEmMain ==
    (pc = "fim" /\ erro # "TypeError") =>
        /\ status = solve_status
        /\ Mostrada(MsgSucesso) => status \in {OPTIMAL, FEASIBLE}
        /\ status \notin {OPTIMAL, FEASIBLE} => Mostrada(MsgSemSolucao)
        /\ Mostrada(MsgInfeasible) <=> status = INFEASIBLE
        /\ Mostrada(MsgModeloInvalido) <=> status = MODEL_INVALID

(* The scenario comparison, lines 792-836, after its two solves: success   *)
(* is shown only when both statuses are OPTIMAL or FEASIBLE, and an        *)
(* INFEASIBLE or MODEL_INVALID status of either solve has its warning      *)
StatusPreservadoEmComparar ==
    (pc = "comparado" /\ comparacao # None) =>
        /\ Mostrada(MsgSimulacao) =>
               /\ comparacao[1].status_a \in {OPTIMAL, FEASIBLE}
               /\ comparacao[1].status_b \in {OPTIMAL, FEASIBLE}
        /\ \A st \in {comparacao[1].status_a, comparacao[1].status_b} :
               /\ st = INFEASIBLE => Mostrada(MsgInfeasible)
               /\ st = MODEL_INVALID => Mostrada(MsgModeloInvalido)

(* C12: the status of a failed solve is never swallowed or degraded: each  *)
(* caller of otimizar receives the status the solver returned, never       *)
(* reports success for a status other than OPTIMAL or FEASIBLE, and shows  *)
(* for INFEASIBLE and for MODEL_INVALID a message of its own.              *)
C12_StatusNaoEngolido ==
    /\ StatusPreservadoEmMain
    /\ StatusPreservadoEmComparar

(* The loaded items of a returned solution and the pallets holding one *)
ItensCarregados == { i \in Range0(N) : Carregado(i) }
PaletesComItens == { p \in Paletes : ItensEm(p) # {} }

(* Equality of two exact quotients *)
MesmoQuociente(q1, q2) == q1.num * q2.den = q2.num * q1.den

(* C13: calcular_metricas reports as used pallets the number of pallets     *)
(* holding at least one item, as loaded volume the sum of the integer       *)
(* volumes of all assigned items, as available volume capacidade_volume     *)
(* times the used pallets, and as volume utilization loaded / available *   *)
(* 100, which is 0 when no pallet is used; the mass figures likewise from   *)
(* the masses and capacidade_massa.                                         *)
C13_Metricas ==
    (pc \in {"metricas", "fim"} /\ Resolvido /\ metricas # None) =>
        LET m == metricas[1]
            L == ItensCarregados
            usados == Cardinality(PaletesComItens)
            vol == SumOver(L, [i \in L |-> Item(itens, i).vol])
            massa == SumOver(L, [i \in L |-> Item(itens, i).mass])
            vol_disp == pallets_config.capacidade_volume * usados
            massa_disp == pallets_config.capacidade_massa * usados
        IN  /\ m.pallets_utilizados = usados
            /\ m.volume_utilizado = Quociente(vol, SCALE_VOL)
            /\ m.volume_disponivel = Quociente(vol_disp, SCALE_VOL)
            /\ vol_disp > 0 =>
                   MesmoQuociente(m.taxa_utilizacao_volume, Quociente(vol * 100, vol_disp))
            /\ usados = 0 => MesmoQuociente(m.taxa_utilizacao_volume, Quociente(0, 1))
            /\ m.peso_utilizado = Quociente(massa, SCALE_MASS)
            /\ m.peso_disponivel = Quociente(massa_disp, SCALE_MASS)
            /\ massa_disp > 0 =>
                   MesmoQuociente(m.taxa_utilizacao_peso, Quociente(massa * 100, massa_disp))
            /\ usados = 0 => MesmoQuociente(m.taxa_utilizacao_peso, Quociente(0, 1))

(* Metrics of a solution over two pallets of which one carries two items    *)
(* and the other none                                                       *)
C13_Witness ==
    /\ pc = "metricas" /\ Resolvido /\ metricas # None
    /\ pallets_config.quantidade = 2
    /\ Cardinality(ItensEm(1)) = 2 /\ ItensEm(0) = {}
    /\ metricas[1].pallets_utilizados = 1
    /\ metricas[1].volume_utilizado.num = 3
    /\ metricas[1].taxa_utilizacao_volume = Quociente(300, 3)

(* Whether the exact quotient q lies in [0, 100] *)
EntreZeroECem(q) ==
    /\ q.den > 0
    /\ 0 <= q.num
    /\ q.num <= 100 * q.den

(* C14: for a returned solution over a non-empty item list, the item, the   *)
(* volume and the mass utilization rates of calcular_metricas lie in        *)
(* [0, 100]: the loaded items are at most the total, the loaded volume at   *)
(* most the available volume and the loaded mass at most the available      *)
(* mass.                                                                    *)
C14_TaxasEntreZeroECem ==
    (pc \in {"metricas", "fim"} /\ Resolvido /\ metricas # None /\ N > 0) =>
        LET m == metricas[1]
        IN  /\ EntreZeroECem(m.taxa_utilizacao_itens)
            /\ EntreZeroECem(m.taxa_utilizacao_volume)
            /\ EntreZeroECem(m.taxa_utilizacao_peso)
            /\ m.itens_carregados <= m.itens_total
            /\ m.volume_utilizado.num <= m.volume_disponivel.num
            /\ m.peso_utilizado.num <= m.peso_disponivel.num

(* The dimensions (l', w', h') of item i in its selected orientation *)
DimsDe(i) ==
    LET k == CHOOSE k \in Range0(NumRotacoes) : RVal(i, k) = 1
    IN permutacoes(Item(itens, i).l, Item(itens, i).w, Item(itens, i).h)[k + 1]

(* Sum of the oriented heights of the items of pallet p with an index below i *)
AlturaAbaixo(p, i) ==
    LET B == { j \in ItensEm(p) : j < i }
    IN SumOver(B, [j \in B |-> DimsDe(j)[3]])

(* The boxes f form one tower per pallet, the origin of pallet p at x = p * passo *)
UmaTorrePorPalete(f, passo) ==
    /\ Len(f) = Cardinality({ c \in Range0(N) \X Paletes : XVal(c[1], c[2]) = 1 })
    /\ \A k \in DOMAIN f :
          /\ f[k].palete \in Paletes
          /\ f[k].item \in ItensEm(f[k].palete)
          /\ f[k].x0 = f[k].palete * passo
          /\ f[k].y0 = 0
          /\ f[k].z0 = AlturaAbaixo(f[k].palete, f[k].item)
          /\ <<f[k].l, f[k].w, f[k].h>> = DimsDe(f[k].item)
    /\ \A k1, k2 \in DOMAIN f :
          (k1 < k2 /\ f[k1].palete = f[k2].palete) =>
              /\ f[k1].item < f[k2].item
              /\ f[k1].z0 + f[k1].h <= f[k2].z0
              /\ (\A k \in DOMAIN f : f[k].palete = f[k1].palete => (k <= k1 \/ k >= k2))
                     => f[k1].z0 + f[k1].h = f[k2].z0
    /\ \A k \in DOMAIN f :
          (\A k1 \in DOMAIN f : f[k1].palete = f[k].palete => k <= k1) => f[k].z0 = 0

(* C15: the plotly figure main shows, and the figure visualizar_matplotlib *)
(* builds of the same solution, hold one vertical tower per pallet: the items of a      *)
(* pallet in ascending index, each at the origin of the pallet in x and y,  *)
(* its z0 the sum of the oriented heights of the lower-indexed items of the *)
(* same pallet, its box the (l', w', h') of the selected orientation; the   *)
(* z-intervals of a pallet are contiguous from 0 and do not overlap.        *)
C15_TorrePorPalete ==
    (pc = "fim" /\ Resolvido) =>
        /\ fig # None
        /\ UmaTorrePorPalete(fig[1], OffsetPlotly)
        /\ UmaTorrePorPalete(visualizar_matplotlib(itens, solver[1], x[1], r[1],
                                                   pallets_config), OffsetMpl)

(* The boxes visualizar_matplotlib draws of the solution in the state *)
BoxesMpl == visualizar_matplotlib(itens, solver[1], x[1], r[1], pallets_config)

(* A rotatable item of height 3 turned to height 2 under a second item of   *)
(* the second pallet, which sits at z0 = 2 in both figures                  *)
C15_Witness ==
    /\ pc = "fim" /\ Resolvido /\ N = 2 /\ pallets_config.quantidade = 2
    /\ Item(itens, 0).o = 1 /\ Item(itens, 0).h = 3
    /\ ItensEm(1) = {0, 1}
    /\ DimsDe(0)[3] = 2
    /\ fig # None
    /\ Len(fig[1]) = 2 /\ fig[1][2].item = 1 /\ fig[1][2].z0 = 2
    /\ fig[1][2].x0 = 25
    /\ BoxesMpl[2].z0 = 2 /\ BoxesMpl[2].x0 = 20

(* Whether the x-extents [x0, x0 + l) of two boxes have a point in common *)
ExtensoesSeCruzam(b1, b2) ==
    /\ b1.x0 < b2.x0 + b2.l
    /\ b2.x0 < b1.x0 + b1.l

(* No box of a pallet p shares a point of its x-extent with a box of a     *)
(* pallet q > p                                                             *)
PaletesSeparadas(f) ==
    \A k1, k2 \in DOMAIN f :
        f[k1].palete < f[k2].palete => ~ExtensoesSeCruzam(f[k1], f[k2])

(* C16: the per-pallet offset keeps the figures free of overlap: for        *)
(* pallets p < q the x-extent [offset_p, offset_p + l') of every box on p   *)
(* meets the x-extent of no box on q, for every item length and orientation *)
(* the model accepts.                                                       *)
C16_PaletesNaoSeSobrepoem ==
    (pc = "fim" /\ Resolvido) =>
        /\ fig # None => PaletesSeparadas(fig[1])
        /\ PaletesSeparadas(BoxesMpl)

(* Reading a decimal text back as an integer *)
RECURSIVE ParseInt(_)
ParseInt(txt) ==
    IF Len(txt) = 0 THEN 0
    ELSE ParseInt(SubSeq(txt, 1, Len(txt) - 1)) * 10
         + ((CHOOSE d \in DOMAIN Digitos : Digitos[d] = txt[Len(txt)]) - 1)

(* The (item, pallet, orientation) triples of the returned solution *)
TriplasDaSolucao ==
    { t \in Range0(N) \X Paletes \X Range0(NumRotacoes) :
        XVal(t[1], t[2]) = 1 /\ RVal(t[1], t[3]) = 1 }

(* The triples read from the JSON entries and from the CSV columns Item_ID, *)
(* Palete and Orientacao                                                    *)
TriplasDoJson ==
    { <<ParseInt(json_data[1][k].item_id), ParseInt(json_data[1][k].palete),
        ParseInt(json_data[1][k].orientacao)>> : k \in DOMAIN json_data[1] }

TriplasDoCsv ==
    { <<ParseInt(csv_data[1][k].Item_ID), ParseInt(csv_data[1][k].Palete),
        ParseInt(csv_data[1][k].Orientacao)>> : k \in DOMAIN csv_data[1] }

(* C17 as stated: reading back either export, the JSON record or the CSV    *)
(* built from it, recovers exactly the (item_id, pallet_index,              *)
(* orientation_index) triples of the solution.                              *)
C17_IdaEVolta ==
    (pc = "fim" /\ Resolvido /\ erro = "") =>
        /\ TriplasDoJson = TriplasDaSolucao
        /\ TriplasDoCsv = TriplasDaSolucao

(* C17, amended: reading back the JSON record recovers exactly the triples  *)
(* of the solution; reading back the CSV recovers them with the pallet      *)
(* numbered from 1, that is (item_id, pallet_index + 1, orientation_index). *)
C17_IdaEVoltaPaleteDesdeUm ==
    (pc = "fim" /\ Resolvido /\ erro = "") =>
        /\ json_data # None /\ csv_data # None
        /\ TriplasDoJson = TriplasDaSolucao
        /\ TriplasDoCsv = { <<t[1], t[2] + 1, t[3]>> : t \in TriplasDaSolucao }

(* Both exports of a solution with an item on each of two pallets, one of   *)
(* them turned to orientation 4                                             *)
C17_Witness ==
    /\ pc = "fim" /\ Resolvido /\ N = 2 /\ pallets_config.quantidade = 2
    /\ TriplasDaSolucao = { <<0, 1, 4>>, <<1, 0, 0>> }
    /\ TriplasDoJson = { <<0, 1, 4>>, <<1, 0, 0>> }
    /\ TriplasDoCsv = { <<0, 2, 4>>, <<1, 1, 0>> }

(* The class of a status: a solution was returned, or the status itself *)
Classe(st) == IF st \in {OPTIMAL, FEASIBLE} THEN "solucao" ELSE st

(* C18: otimizar is deterministic and stateless in its status class and its *)
(* optimum: the two calls of a comparison, given the same items and the     *)
(* same configuration, return the same status class and, when both are      *)
(* OPTIMAL, the same objective value; and the calls leave the fields of the *)
(* optimizer object as __init__ set them.                                   *)
C18_Deterministico ==
    (pc = "comparado" /\ comparacao # None) =>
        LET c == comparacao[1]
        IN  /\ c.config_a = c.config_b =>
                  /\ Classe(c.status_a) = Classe(c.status_b)
                  /\ (c.status_a = OPTIMAL /\ c.status_b = OPTIMAL)
                        => c.objetivo_a = c.objetivo_b
            /\ optimizer = PalletOptimizer

(* C20: in every returned solution the rests-on relation holds only         *)
(* between loaded items: s[i,j] = 1 implies that item i and item j are each *)
(* assigned to a pallet.                                                    *)
C20_EmpilhamentoSoCarregados ==
    Resolvido =>
        \A i, j \in Range0(N) :
            (i # j /\ SVal(i, j) = 1) => (Carregado(i) /\ Carregado(j))

(* C19: the stacking relation has no effect on loading: the assignments of *)
(* x and of r that satisfy the model, and with them the optimal objective, *)
(* are the same for two item lists that differ only in their fragile       *)
(* flags, and they are the same whatever values the s variables take: with *)
(* any admitted assignment of s every assignment of x still satisfies the  *)
(* constraints on x and has the same objective.                            *)
C19_EmpilhamentoSemEfeito ==
    (pc = "modelos" /\ modelos # None) =>
        LET m == modelos[1]
            num_pallets == pallets_config.quantidade
            xs == XVars(Len(itens), num_pallets)
        IN  /\ m.a.x = m.b.x
            /\ m.a.r = m.b.r
            /\ m.a.otimo = m.b.otimo
            /\ \A vs \in m.a.s \cup m.b.s : \A vx \in m.a.x :
                  /\ \A i \in Range0(Len(itens)) :
                        RestricaoUmaPalete(vx @@ vs, xs, i, num_pallets)
                  /\ \A p \in Range0(num_pallets) :
                        RestricaoCapacidade(vx @@ vs, xs, p, itens, pallets_config)
                  /\ Objetivo(vx @@ vs, xs, itens, num_pallets)
                        = Objetivo(vx, xs, itens, num_pallets)

(* Two lists of two items of equal mass, the first with no fragile item,    *)
(* the second with both fragile: the s variables are free in the one and    *)
(* fixed in the other, the models admit the same x and r and have the same  *)
(* optimum, which leaves an item behind                                     *)
C19_Witness ==
    /\ pc = "modelos" /\ modelos # None /\ Len(itens) = 2
    /\ \A k \in 1 .. 2 : itens[k].f = 0 /\ modelos[1].itens_b[k].f = 1
    /\ itens[1].mass = itens[2].mass
    /\ Cardinality(modelos[1].a.s) = 4 /\ Cardinality(modelos[1].b.s) = 1
    /\ Cardinality(modelos[1].a.x) > 1
    /\ modelos[1].a.x = modelos[1].b.x
    /\ modelos[1].a.otimo = Some(2)

(* The assignment that loads nothing, gives every item orientation 0 and   *)
(* rests nothing on anything, split by family of variables                 *)
NadaCarregado(its, cfg) ==
    LET xs == XVars(Len(its), cfg.quantidade)
    IN [v \in { xs[c] : c \in DOMAIN xs } |-> 0]

OrientacaoZero(its) ==
    LET rs == RVars(Len(its))
    IN [v \in { rs[c] : c \in DOMAIN rs } |-> IF v = rs[<<v[2], 0>>] THEN 1 ELSE 0]

NadaEmpilhado(its) ==
    LET ss == SVars(Len(its))
    IN [v \in { ss[c] : c \in DOMAIN ss } |-> 0]

CapacidadeNegativa(cfg) == cfg.capacidade_massa < 0 \/ cfg.capacidade_volume < 0

(* C21: for every item list and every configuration with a pallet count    *)
(* >= 0 and both capacities >= 0 the model otimizar builds is satisfiable: *)
(* loading nothing, orientation 0 for every item and s all 0 satisfies     *)
(* every constraint, so no return of otimizar is INFEASIBLE; a model with  *)
(* no satisfying assignment has a negative capacity.                       *)
C21_Satisfazivel ==
    (pc = "modelos" /\ modelos # None) =>
        LET m == modelos[1].a
        IN  /\ ~CapacidadeNegativa(pallets_config) =>
                  /\ NadaCarregado(itens, pallets_config) \in m.x
                  /\ OrientacaoZero(itens) \in m.r
                  /\ NadaEmpilhado(itens) \in m.s
                  /\ \A ret \in RetornosOtimizar(itens, pallets_config) :
                        ret.status # INFEASIBLE
            /\ m.x = {} => CapacidadeNegativa(pallets_config)
            /\ (\E ret \in RetornosOtimizar(itens, pallets_config) :
                    ret.status = INFEASIBLE) => CapacidadeNegativa(pallets_config)

(* The model of two items over two pallets of mass capacity 0: loading      *)
(* nothing is its only loading                                              *)
C21_Witness ==
    /\ pc = "modelos" /\ modelos # None /\ Len(itens) = 2
    /\ pallets_config.quantidade = 2 /\ pallets_config.capacidade_massa = 0
    /\ modelos[1].a.x = { NadaCarregado(itens, pallets_config) }
    /\ modelos[1].a.otimo = Some(0)
    /\ OrientacaoZero(itens) \in modelos[1].a.r

(* Configuration c2 has at least the pallets and the capacities of c1 *)
ConfigMaiorOuIgual(c2, c1) ==
    /\ c2.quantidade >= c1.quantidade
    /\ c2.capacidade_massa >= c1.capacidade_massa
    /\ c2.capacidade_volume >= c1.capacidade_volume

(* The optimum of the model of otimizar(its, cfg), the model being satisfiable *)
OtimoDe(its, cfg) == MaxObjetivo(XSolutions(its, cfg), its, cfg)

(* C22: for a fixed item list the optimal objective is monotone in the      *)
(* configuration: when both solves of a comparison are OPTIMAL, the         *)
(* scenario with at least the pallets and the mass capacity of the other    *)
(* has at least its objective; and a larger volume capacity, the rest       *)
(* equal, never has a smaller optimum than the one an OPTIMAL solve         *)
(* returned.                                                                *)
C22_OtimoMonotono ==
    (pc = "comparado" /\ comparacao # None) =>
        LET c == comparacao[1]
        IN  /\ (c.status_a = OPTIMAL /\ c.status_b = OPTIMAL) =>
                  /\ ConfigMaiorOuIgual(c.config_b, c.config_a)
                        => c.objetivo_b[1] >= c.objetivo_a[1]
                  /\ ConfigMaiorOuIgual(c.config_a, c.config_b)
                        => c.objetivo_a[1] >= c.objetivo_b[1]
            /\ c.status_a = OPTIMAL =>
                  \A v \in VolumesComparar :
                      v > c.config_a.capacidade_volume =>
                          OtimoDe(itens, [c.config_a EXCEPT !.capacidade_volume = v])
                              >= c.objetivo_a[1]

(* A comparison of one pallet of 1000 kg against two pallets of 1500 kg,    *)
(* both OPTIMAL, the second with the larger objective                       *)
C22_Witness ==
    /\ pc = "comparado" /\ comparacao # None
    /\ comparacao[1].status_a = OPTIMAL /\ comparacao[1].status_b = OPTIMAL
    /\ comparacao[1].config_a.quantidade = 1 /\ comparacao[1].config_b.quantidade = 2
    /\ comparacao[1].config_a.capacidade_massa = 1000 * SCALE_MASS
    /\ comparacao[1].config_b.capacidade_massa = 1500 * SCALE_MASS
    /\ comparacao[1].objetivo_b[1] > comparacao[1].objetivo_a[1]
    /\ comparacao[1].objetivo_a[1] > 0

(* C23: the allocation record built from a solution has exactly one entry  *)
(* for every loaded item and none for an unloaded item, its entries are    *)
(* ordered by pallet index and then by item index, and its length is the   *)
(* itens_carregados metric computed from the same solution.                *)
C23_RegistroDeAlocacao ==
    (pc = "fim" /\ Resolvido /\ erro = "") =>
        /\ resultados # None /\ metricas # None
        /\ LET a == resultados[1]
           IN  /\ \A i \in Range0(N) :
                     Cardinality({ k \in DOMAIN a : a[k].item_id = i })
                         = IF Carregado(i) THEN 1 ELSE 0
               /\ \A k \in DOMAIN a :
                     /\ a[k].item_id \in Range0(N)
                     /\ a[k].palete \in PaletesDe(a[k].item_id)
               /\ \A k1, k2 \in DOMAIN a :
                     k1 < k2 =>
                         \/ a[k1].palete < a[k2].palete
                         \/ (a[k1].palete = a[k2].palete /\ a[k1].item_id < a[k2].item_id)
               /\ Len(a) = metricas[1].itens_carregados

(* A record of two entries whose first is item 1 on pallet 0 and whose      *)
(* second is item 0 on pallet 1                                             *)
C23_Witness ==
    /\ pc = "fim" /\ Resolvido /\ N = 2 /\ pallets_config.quantidade = 2
    /\ resultados # None /\ metricas # None
    /\ Len(resultados[1]) = 2
    /\ resultados[1][1].item_id = 1 /\ resultados[1][1].palete = 0
    /\ resultados[1][2].item_id = 0 /\ resultados[1][2].palete = 1
    /\ metricas[1].itens_carregados = 2

====
